---- MODULE Spec2Model ----
(***************************************************************************)
(* State-machine model of the Trader session core (src/trading.py).        *)
(*                                                                         *)
(* The Trader object is driven from two sides: caller operations           *)
(* (connect, disconnect, get_market_price, get_price_history,              *)
(* get_account_summary, place_market_order, start_heartbeat) and the       *)
(* callbacks the venue client library runs on the reactor                  *)
(* (_on_client_connected, _on_client_disconnected, _on_message_received,   *)
(* and the Deferred callbacks/errbacks attached to client.send).           *)
(*                                                                         *)
(* The venue client library (ctrader_open_api.Client, a Twisted client     *)
(* service) is not part of the repository; it is modelled as the           *)
(* environment: a service that is running or not, a transport that is      *)
(* down, connecting, up or closing, the requests of the current transport  *)
(* session the server has not answered yet (wire) and the Deferreds of     *)
(* client.send that have not fired yet (pending).  After stopService the   *)
(* transport is "closing": the connection-lost callback has not run yet    *)
(* and replies already in flight may still be delivered.                   *)
(*                                                                         *)
(* The settings object is taken to carry the attributes the constructor    *)
(* reads (openapi.default_ctid_trader_account_id, openapi.host_type).      *)
(*                                                                         *)
(* Python None is modelled as 0 for account ids (both are falsy in the     *)
(* `if self.ctid_trader_account_id:` tests) and as NoValue for the         *)
(* snapshot fields.  _last_error keeps the source's message texts (the     *)
(* f-string arguments are dropped).                                        *)
(***************************************************************************)
EXTENDS Integers, Sequences, FiniteSets, TLC

(* ------------------------------ bounds --------------------------------- *)
MaxAccount == 2          \* account ids 1..MaxAccount; 0 stands for None
MaxStarts == 2           \* startService calls between two Disconnected states
HistorySize == 1         \* Trader(history_size=...)
HandshakeTimeout == 1    \* handshake bound of the session contract, in ticks
MaxTicks == HandshakeTimeout + 1
HeartbeatMultiple == 2   \* silent heartbeat intervals the session contract allows
MaxIdle == HeartbeatMultiple + 1

Accounts == 1..MaxAccount
Prices == {1, 2}          \* prices carried by spot events
OrderSizes == {0, 1}      \* size_in_lots of an order: not positive, positive
NoValue == -1

(* ------------------------- message texts ------------------------------- *)
ErrNone == ""
ErrLibMissing == "ctrader-open-api library not installed."
ErrCreds == "Client ID or Secret not configured for ProtoOAApplicationAuthReq. Cannot send Auth Req."
ErrApi == "API Error"
ErrSend == "Failed to send message or process response"
ErrAcctAuth == "Account authorization failed"
ErrNoAccounts == "No trading accounts found."
ErrNoAcctAuthReq == "Cannot send AccountAuthReq: Client not connected."
ErrNoListReq == "Cannot send GetAccountListReq: Client not connected."
ErrNoTraderReq == "Cannot send GetTraderReq: Client not connected."
ErrNoReactor == "Twisted reactor not available or not running."
ErrStart == "Failed to start OpenApiPy Client service"

VARIABLES
  USE_OPENAPI_LIB,        \* module flag: venue library imported
  reactor_installed,      \* module flag _reactor_installed
  reactor_running,        \* reactor.running
  creds_ok,               \* settings.openapi.client_id and client_secret set
  reachable,              \* environment: the endpoint accepts connections
  default_ctid,           \* settings.openapi.default_ctid_trader_account_id
  is_connected,           \* Trader.is_connected
  is_client_connected,    \* Trader._is_client_connected
  last_error,             \* Trader._last_error
  ctid_trader_account_id, \* Trader.ctid_trader_account_id
  snapshot,               \* Trader.account_id, balance, equity, margin, currency
  price_history,          \* Trader.price_history
  reactor_thread,         \* Trader._reactor_thread: "none", "alive", or "leaked"
                          \* (reference cleared while the thread still runs)
  svc_running,            \* library: client service running
  transport,              \* library: "down", "connecting", "up", "closing"
  wire,                   \* requests of this transport session not yet answered
  pending,                \* Deferreds of client.send not yet fired
  op,                     \* last operation: [name, ready] and its argument
  ret,                    \* its result: [kind, v, list]
  startCount,             \* startService calls since the last Disconnected
  spotLog,                \* prices of the last HistorySize spot events dispatched
  appAuthOk,              \* app-auth reply received in this transport session
  acctAuthOk,             \* account-auth reply for the selected account received
  hsElapsed,              \* ticks spent waiting for the app-auth reply
  sinceDisc,              \* disconnect()/transport drop seen, no connect() since
  fresh,                  \* account event accepted since Ready was last reached
  idleTicks,              \* heartbeat intervals without an inbound message
  ids,                    \* _message_id_counter and the calls of _next_message_id
  scalp,                  \* TradingPage.is_scalping and the _scalp_loop threads
  race                    \* positions of a disconnect() and a handler that overlap

vars == <<USE_OPENAPI_LIB, reactor_installed, reactor_running, creds_ok,
          reachable, default_ctid, is_connected, is_client_connected,
          last_error, ctid_trader_account_id, snapshot, price_history,
          reactor_thread, svc_running, transport, wire, pending, op, ret,
          startCount, spotLog, appAuthOk, acctAuthOk, hsElapsed, sinceDisc,
          fresh, idleTicks, ids, scalp, race>>

configVars == <<USE_OPENAPI_LIB, reactor_installed, creds_ok, reachable>>

(* ------------------------------ helpers -------------------------------- *)
Op(n, r) == [name |-> n, ready |-> r]
RetNone == [kind |-> "none", v |-> 0, list |-> <<>>]
RetBool(b) == [kind |-> "bool", v |-> IF b THEN 1 ELSE 0, list |-> <<>>]
RetError == [kind |-> "error", v |-> 0, list |-> <<>>]
RetPrice(p) == [kind |-> "price", v |-> p, list |-> <<>>]
RetList(l) == [kind |-> "list", v |-> 0, list |-> l]
RetSummary(d) == [kind |-> "summary", v |-> 0, list |-> <<d>>]

EmptySnapshot ==
  [account_id |-> NoValue, balance |-> NoValue, equity |-> NoValue,
   margin |-> NoValue, currency |-> "None"]

Req(k, a) == [kind |-> k, acct |-> a]

\* The last min(k, n) elements of a sequence, oldest first.
LastN(seq, n) ==
  IF Len(seq) <= n THEN seq ELSE SubSeq(seq, Len(seq) - n + 1, Len(seq))

MaxThreads == 2          \* threads that call _next_message_id
MaxIds == 3              \* calls of _next_message_id in one behaviour
Threads == 1..MaxThreads

\* str(n) of line 83.
msg_id(n) == ToString(n)

\* A thread that is not inside _next_message_id.  pc is the next statement
\* of the call, msg the local msg_id, tmp the value loaded by `+= 1`.
NoCall == [pc |-> "idle", msg |-> "", tmp |-> 0]

\* The message id counter after construction (line 64); no call of
\* _next_message_id is in progress and none has returned yet.
IdsInit ==
  [counter |-> 1, calls |-> [t \in Threads |-> NoCall], issued |-> <<>>]

MaxScalpThreads == 2     \* _scalp_loop threads started in one behaviour

\* TradingPage after construction (gui.py lines 156-157): not scalping, no
\* loop thread.  loops[i] is the position of the i-th thread started, seen
\* the number of starts there had been when it last found is_scalping true.
ScalpInit == [is_scalping |-> FALSE, loops |-> <<>>, seen |-> <<>>]

\* No disconnect() and no handler is part-way through its statements.
\* pcD, pcH: the next statement of a disconnect() on the caller thread and
\* of _handle_account_auth_response on the reactor thread; base: the session
\* when the first of the two began; req, resp: the handler's request and
\* reply; both: the two calls overlapped.
RaceIdle ==
  [pcD |-> "idle", pcH |-> "idle", both |-> FALSE, base |-> <<>>,
   req |-> <<>>, resp |-> 0]

\* The part of the Trader a request sender reads and writes.
Sess(ic, icc, le, w, p) ==
  [is_connected |-> ic, is_client_connected |-> icc, last_error |-> le,
   wire |-> w, pending |-> p]

CurSess == Sess(is_connected, is_client_connected, last_error, wire, pending)

\* `self._client` is set exactly when the library was imported.
HasClient == USE_OPENAPI_LIB

\* `self._client.connected`: the library's transport is established.
ClientConnected == HasClient /\ transport \in {"up", "closing"}

(* -------------------------- request senders ---------------------------- *)
\* client.send(req) with an errback attached: the request goes on the wire
\* and its Deferred is pending.
client_send(s, r) ==
  [s EXCEPT !.wire = @ \cup {r}, !.pending = @ \cup {r}]

send_account_auth_request(s, acct) ==
  IF ~s.is_client_connected \/ ~HasClient
  THEN [s EXCEPT !.last_error = ErrNoAcctAuthReq]
  ELSE client_send(s, Req("AccountAuthReq", acct))

send_get_account_list_request(s) ==
  IF ~s.is_client_connected \/ ~HasClient
  THEN [s EXCEPT !.last_error = ErrNoListReq]
  ELSE client_send(s, Req("GetAccountListReq", 0))

send_get_trader_request(s, acct) ==
  IF ~s.is_client_connected \/ ~HasClient
  THEN [s EXCEPT !.last_error = ErrNoTraderReq]
  ELSE client_send(s, Req("GetTraderReq", acct))

\* Trader._send_ping_request: silent when the client is not connected.
send_ping_request(s) ==
  IF ~s.is_client_connected \/ ~HasClient
  THEN s
  ELSE client_send(s, Req("PingReq", 0))

\* Trader.subscribe_to_symbol_prices: prints and returns when the client is
\* not connected.
subscribe_to_symbol_prices(s, acct) ==
  IF ~s.is_client_connected \/ ~HasClient
  THEN s
  ELSE client_send(s, Req("SubscribeSpotsReq", acct))

\* Writes a sender's result back to the Trader.
Commit(s) ==
  /\ is_connected' = s.is_connected
  /\ is_client_connected' = s.is_client_connected
  /\ last_error' = s.last_error
  /\ wire' = s.wire
  /\ pending' = s.pending

(* -------------------------------- Init --------------------------------- *)
Init ==
  /\ USE_OPENAPI_LIB \in BOOLEAN
  /\ reactor_installed \in BOOLEAN
  /\ reactor_running \in BOOLEAN
  /\ reactor_running => reactor_installed
  /\ creds_ok \in BOOLEAN
  /\ reachable \in BOOLEAN
  /\ default_ctid \in {0} \cup Accounts
  /\ is_connected = FALSE
  /\ is_client_connected = FALSE
  /\ last_error = ErrNone
  /\ ctid_trader_account_id = default_ctid
  /\ snapshot = EmptySnapshot
  /\ price_history = <<>>
  /\ reactor_thread = "none"
  /\ svc_running = FALSE
  /\ transport = "down"
  /\ wire = {}
  /\ pending = {}
  /\ op = Op("init", FALSE)
  /\ ret = RetNone
  /\ startCount = 0
  /\ spotLog = <<>>
  /\ appAuthOk = FALSE
  /\ acctAuthOk = FALSE
  /\ hsElapsed = 0
  /\ sinceDisc = FALSE
  /\ fresh = FALSE
  /\ idleTicks = 0
  /\ ids = IdsInit
  /\ scalp = ScalpInit
  /\ race = RaceIdle


(* ------------------------- caller operations --------------------------- *)
\* The guard of line 335 with the is_connected test inverted.
AlreadyConnected_inverted(ic, cc) == ~ic /\ cc

\* Line 335: "Already connected or connection attempt in progress."
AlreadyConnected(ic, cc) == ic \/ cc

\* Trader.connect, library missing: simulated connection.
connect_mock ==
  /\ ~USE_OPENAPI_LIB
  /\ last_error' = ErrLibMissing
  /\ is_connected' = TRUE
  /\ ret' = RetBool(TRUE)
  /\ UNCHANGED <<is_client_connected, reactor_running, reactor_thread,
                 svc_running, transport, startCount>>

\* Trader.connect, early return of line 335.
connect_already ==
  /\ USE_OPENAPI_LIB
  /\ AlreadyConnected(is_connected, ClientConnected)
  /\ ret' = RetBool(TRUE)
  /\ UNCHANGED <<is_connected, is_client_connected, last_error,
                 reactor_running, reactor_thread, svc_running, transport,
                 startCount>>

\* Trader.connect, the try block: startService, then the reactor.
connect_start ==
  /\ USE_OPENAPI_LIB
  /\ ~AlreadyConnected(is_connected, ClientConnected)
  /\ startCount < MaxStarts
  /\ \E raises \in BOOLEAN :
       IF raises
       THEN /\ last_error' = ErrStart
            /\ is_connected' = FALSE
            /\ ret' = RetBool(FALSE)
            /\ UNCHANGED <<reactor_running, reactor_thread, svc_running,
                           transport, startCount>>
       ELSE /\ svc_running' = TRUE
            /\ transport' = IF transport = "down" THEN "connecting" ELSE transport
            /\ startCount' = startCount + 1
            /\ UNCHANGED is_connected
            /\ IF reactor_installed
               THEN /\ IF ~reactor_running /\ reactor_thread = "none"
                       THEN reactor_thread' = "alive" /\ reactor_running' = TRUE
                       ELSE UNCHANGED <<reactor_thread, reactor_running>>
                    /\ ret' = RetBool(TRUE)
                    /\ UNCHANGED last_error
               ELSE /\ last_error' = ErrNoReactor
                    /\ ret' = RetBool(FALSE)
                    /\ UNCHANGED <<reactor_thread, reactor_running>>
  /\ UNCHANGED is_client_connected

connect ==
  /\ race = RaceIdle
  /\ op' = Op("connect", is_connected)
  /\ sinceDisc' = FALSE
  /\ \/ connect_mock
     \/ connect_already
     \/ connect_start
  /\ UNCHANGED <<configVars, ids, scalp, idleTicks, race, fresh, default_ctid, ctid_trader_account_id, snapshot,
                 price_history, wire, pending, spotLog, appAuthOk, acctAuthOk,
                 hsElapsed>>

\* client.stopService(): an established transport starts closing, a
\* connection attempt is abandoned.
stopService(t) ==
  CASE t = "up" -> "closing"
    [] t = "connecting" -> "down"
    [] OTHER -> t

\* Trader.disconnect.  `stops` is whether the reactor thread started by the
\* Trader ends within join(timeout=5); a reactor that stops closes the
\* transport on its way out.  self._reactor_thread is set to None either
\* way: a thread that did not end keeps running unreferenced ("leaked").
disconnect ==
  /\ race = RaceIdle
  /\ op' = Op("disconnect", is_connected)
  /\ ret' = RetNone
  /\ \E stops \in BOOLEAN :
       /\ svc_running' = (IF HasClient THEN FALSE ELSE svc_running)
       /\ IF reactor_thread = "alive" /\ reactor_installed /\ reactor_running /\ stops
          THEN /\ reactor_running' = FALSE
               /\ reactor_thread' = "none"
               /\ transport' = "down"
               /\ wire' = {}
               /\ appAuthOk' = FALSE
               /\ acctAuthOk' = FALSE
          ELSE /\ transport' = (IF HasClient THEN stopService(transport) ELSE transport)
               /\ reactor_thread' =
                    (IF reactor_thread = "alive" /\ reactor_installed
                        /\ reactor_running
                     THEN "leaked"
                     ELSE IF reactor_thread = "leaked" THEN "leaked" ELSE "none")
               /\ UNCHANGED <<reactor_running, wire, appAuthOk, acctAuthOk>>
  /\ is_connected' = FALSE
  /\ is_client_connected' = FALSE
  /\ startCount' = 0
  /\ sinceDisc' = TRUE
  /\ hsElapsed' = 0
  /\ UNCHANGED <<configVars, ids, scalp, idleTicks, race, fresh, default_ctid, last_error, ctid_trader_account_id,
                 snapshot, price_history, pending, spotLog>>

\* Trader.get_market_price(symbol); the fallback is a random number.
get_market_price ==
  /\ race = RaceIdle
  /\ op' = Op("get_market_price", is_connected)
  /\ IF ~USE_OPENAPI_LIB
     THEN \E p \in Prices : ret' = RetPrice(p)
     ELSE IF ~is_connected
     THEN ret' = RetError
     ELSE IF price_history # <<>>
     THEN ret' = RetPrice(price_history[Len(price_history)])
     ELSE \E p \in Prices : ret' = RetPrice(p)
  /\ UNCHANGED <<configVars, ids, scalp, idleTicks, race, fresh, default_ctid, reactor_running, is_connected,
                 is_client_connected, last_error, ctid_trader_account_id,
                 snapshot, price_history, reactor_thread, svc_running,
                 transport, wire, pending, startCount, spotLog, appAuthOk,
                 acctAuthOk, hsElapsed, sinceDisc>>

\* Trader.get_price_history: a copy of the list.
get_price_history ==
  /\ race = RaceIdle
  /\ op' = Op("get_price_history", is_connected)
  /\ ret' = RetList(price_history)
  /\ UNCHANGED <<configVars, ids, scalp, idleTicks, race, fresh, default_ctid, reactor_running, is_connected,
                 is_client_connected, last_error, ctid_trader_account_id,
                 snapshot, price_history, reactor_thread, svc_running,
                 transport, wire, pending, startCount, spotLog, appAuthOk,
                 acctAuthOk, hsElapsed, sinceDisc>>


\* What an operation that only reads the Trader leaves alone.
QueryFrame ==
  UNCHANGED <<configVars, ids, scalp, idleTicks, race, fresh, default_ctid, reactor_running,
              is_connected, is_client_connected, last_error,
              ctid_trader_account_id, snapshot, price_history,
              reactor_thread, svc_running, transport, wire, pending,
              startCount, spotLog, appAuthOk, acctAuthOk, hsElapsed,
              sinceDisc>>

\* Line 512 with `or` replaced by `and`.
OrderRefused_both(ic, ctid) == ~ic /\ ctid = 0

\* Line 512: "Not connected or account not authorized for placing order."
OrderRefused(ic, ctid) == ~ic \/ ctid = 0

\* Trader.place_market_order(symbol, side, size_in_lots, tp_pips, sl_pips).
\* Past the guard there is a print and `pass`: no request is built or sent.
place_market_order ==
  /\ race = RaceIdle
  /\ \E size \in OrderSizes :
       op' = [name |-> "place_market_order", ready |-> is_connected,
              size |-> size]
  /\ IF ~USE_OPENAPI_LIB
     THEN ret' = RetNone
     ELSE IF OrderRefused(is_connected, ctid_trader_account_id)
     THEN ret' = RetError
     ELSE ret' = RetNone
  /\ QueryFrame

\* Trader.start_heartbeat: the LoopingCall is created and dropped, its
\* start(30) and the assignment to self._ping_lc are commented out.
start_heartbeat ==
  /\ race = RaceIdle
  /\ op' = Op("start_heartbeat", is_connected)
  /\ ret' = RetNone
  /\ QueryFrame

\* The dict returned while no snapshot is available.
NoSummary(detail) ==
  [account_id |-> detail, balance |-> NoValue, equity |-> NoValue,
   margin |-> NoValue, currency |-> "None"]

\* The dict returned when the library is missing.
MockSummary ==
  [account_id |-> "MOCK_LIB_DISABLED", balance |-> 0, equity |-> 0,
   margin |-> 0, currency |-> "N/A"]

\* Trader.get_account_summary.
get_account_summary ==
  /\ race = RaceIdle
  /\ op' = Op("get_account_summary", is_connected)
  /\ ret' = RetSummary(
       IF ~USE_OPENAPI_LIB THEN MockSummary
       ELSE IF ~is_connected
       THEN IF is_client_connected
            THEN NoSummary("Connecting (authorizing account)...")
            ELSE IF ClientConnected
            THEN NoSummary("Connecting (OpenApiPy client connected, app auth pending)...")
            ELSE NoSummary("Not connected.")
       ELSE IF snapshot.account_id # NoValue
       THEN snapshot
       ELSE NoSummary("Fetching details..."))
  /\ QueryFrame


(* ----------------------- library callbacks ----------------------------- *)
\* The reactor delivers callbacks only while it runs.
Delivering == USE_OPENAPI_LIB /\ reactor_running /\ transport \in {"up", "closing"}

AccountLists ==
  {<<>>} \cup {<<a>> : a \in Accounts}
         \cup {<<a, b>> : a \in Accounts, b \in Accounts}

\* (ctidTraderAccountId, balance, equity, depositAssetId) of a ProtoOATrader.
TraderMsgs ==
  {[acct |-> 1, balance |-> 100, equity |-> 200, asset |-> 1],
   [acct |-> 1, balance |-> 500, equity |-> 400, asset |-> 2],
   [acct |-> MaxAccount, balance |-> 300, equity |-> 300, asset |-> 7]}

\* asset_map.get(depositAssetId, str(depositAssetId))
asset_map(a) ==
  CASE a = 1 -> "USD"
    [] a = 2 -> "EUR"
    [] a = 3 -> "GBP"
    [] OTHER -> ToString(a)

\* The request built by _on_client_connected with an account-auth request
\* in its place.
app_auth_request_as_account_auth == Req("AccountAuthReq", 1)

\* The ProtoOAApplicationAuthReq built by _on_client_connected.
app_auth_request == Req("ApplicationAuthReq", 0)

\* The credentials test of line 98 with the test left out.
CredsMissing_never(ok) == FALSE

\* Line 98: `not auth_req.clientId or not auth_req.clientSecret`.
CredsMissing(ok) == ~ok

\* Trader._on_client_connected, run when the transport comes up.
on_client_connected ==
  /\ race = RaceIdle
  /\ USE_OPENAPI_LIB /\ reactor_running
  /\ transport = "connecting"
  /\ reachable
  /\ op' = Op("_on_client_connected", FALSE)
  /\ ret' = RetNone
  /\ is_client_connected' = TRUE
  /\ hsElapsed' = 0
  /\ appAuthOk' = FALSE
  /\ acctAuthOk' = FALSE
  /\ IF CredsMissing(creds_ok)
     THEN /\ last_error' = ErrCreds
          /\ svc_running' = FALSE
          /\ transport' = stopService("up")
          /\ UNCHANGED <<wire, pending>>
     ELSE /\ last_error' = ErrNone
          /\ transport' = "up"
          /\ wire' = {app_auth_request}
          /\ pending' = pending \cup {app_auth_request}
          /\ UNCHANGED svc_running
  /\ idleTicks' = 0
  /\ UNCHANGED <<configVars, ids, scalp, race, fresh, default_ctid, reactor_running, is_connected,
                 ctid_trader_account_id, snapshot, price_history,
                 reactor_thread, startCount, spotLog, sinceDisc>>

\* Trader._on_client_disconnected, run when the transport is lost.  A
\* client service that is still running tries to connect again.
on_client_disconnected ==
  /\ race = RaceIdle
  /\ USE_OPENAPI_LIB /\ reactor_running
  /\ transport \in {"up", "closing"}
  /\ op' = Op("_on_client_disconnected", FALSE)
  /\ ret' = RetNone
  /\ is_connected' = FALSE
  /\ is_client_connected' = FALSE
  /\ transport' = IF svc_running THEN "connecting" ELSE "down"
  /\ wire' = {}
  /\ appAuthOk' = FALSE
  /\ acctAuthOk' = FALSE
  /\ startCount' = 0
  /\ sinceDisc' = TRUE
  /\ hsElapsed' = 0
  /\ idleTicks' = 0
  /\ UNCHANGED <<configVars, ids, scalp, race, fresh, default_ctid, reactor_running, last_error,
                 ctid_trader_account_id, snapshot, price_history,
                 reactor_thread, svc_running, pending, spotLog>>

\* What a message handler leaves alone.
HandlerFrame ==
  UNCHANGED <<configVars, ids, scalp, race, reactor_running, price_history, reactor_thread,
              svc_running, transport, startCount, sinceDisc>>

\* ProtoOAApplicationAuthRes: _on_message_received passes, the Deferred of
\* the request (if it has not failed yet) runs _handle_app_auth_response.
handle_app_auth_response ==
  /\ race = RaceIdle
  /\ Delivering
  /\ \E r \in wire :
       /\ r.kind = "ApplicationAuthReq"
       /\ LET s0 == Sess(is_connected, is_client_connected, last_error,
                         wire \ {r}, pending \ {r})
          IN IF r \in pending
             THEN IF ctid_trader_account_id # 0
                  THEN Commit(send_account_auth_request(s0, ctid_trader_account_id))
                  ELSE Commit(send_get_account_list_request(s0))
             ELSE Commit(s0)
  /\ op' = Op("_handle_app_auth_response", FALSE)
  /\ ret' = RetNone
  /\ appAuthOk' = TRUE
  /\ hsElapsed' = 0
  /\ idleTicks' = 0
  /\ HandlerFrame
  /\ UNCHANGED <<default_ctid, ctid_trader_account_id, snapshot, spotLog,
                 acctAuthOk, fresh>>

\* Trader._handle_account_auth_response(response) on the session s.
account_auth_response(s, respAcct, ctid) ==
  IF respAcct = ctid
  THEN send_get_trader_request(
         [s EXCEPT !.is_connected = TRUE, !.last_error = ErrNone], ctid)
  ELSE [s EXCEPT !.last_error = ErrAcctAuth, !.is_connected = FALSE]

\* ProtoOAAccountAuthRes answering an account-auth request.
handle_account_auth_response ==
  /\ race = RaceIdle
  /\ Delivering
  /\ \E r \in wire, respAcct \in Accounts :
       /\ r.kind = "AccountAuthReq"
       /\ Commit(account_auth_response(
            Sess(is_connected, is_client_connected, last_error,
                 wire \ {r}, pending \ {r}),
            respAcct, ctid_trader_account_id))
       /\ acctAuthOk' = (acctAuthOk \/ respAcct = ctid_trader_account_id)
       /\ fresh' = (fresh /\ respAcct # ctid_trader_account_id)
       /\ op' = [name |-> "_handle_account_auth_response", ready |-> FALSE,
                 resp |-> respAcct]
  /\ ret' = RetNone
  /\ idleTicks' = 0
  /\ HandlerFrame
  /\ UNCHANGED hsElapsed
  /\ UNCHANGED <<default_ctid, ctid_trader_account_id, snapshot, spotLog,
                 appAuthOk>>

\* The account selected by _handle_get_account_list_response.
SelectAccount(ctid, list) ==
  IF ctid # 0
  THEN IF \E i \in 1..Len(list) : list[i] = ctid THEN ctid ELSE list[1]
  ELSE list[1]

\* Lines 195-199 with the two assignments left out.
no_accounts_found_silent(s) == s

\* Lines 195-199: the reply lists no account.
no_accounts_found(s) ==
  [s EXCEPT !.last_error = ErrNoAccounts, !.is_connected = FALSE]

\* ProtoOAGetAccountListRes answering an account-list request.
handle_get_account_list_response ==
  /\ race = RaceIdle
  /\ Delivering
  /\ \E r \in wire, list \in AccountLists :
       /\ r.kind = "GetAccountListReq"
       /\ op' = [name |-> "_handle_get_account_list_response",
                 ready |-> FALSE, list |-> list]
       /\ LET s0 == Sess(is_connected, is_client_connected, last_error,
                         wire \ {r}, pending \ {r})
          IN IF list = <<>>
             THEN /\ Commit(no_accounts_found(s0))
                  /\ UNCHANGED <<ctid_trader_account_id, default_ctid>>
             ELSE LET sel == SelectAccount(ctid_trader_account_id, list)
                  IN /\ ctid_trader_account_id' = sel
                     /\ default_ctid' = sel
                     /\ Commit(send_account_auth_request(s0, sel))
  /\ ret' = RetNone
  /\ idleTicks' = 0
  /\ HandlerFrame
  /\ UNCHANGED hsElapsed
  /\ UNCHANGED <<snapshot, spotLog, appAuthOk, acctAuthOk, fresh>>

\* The test of lines 222 and 240 taken as always true.
for_selected_account_always(m, ctid) == TRUE

\* Lines 222 and 240: trader.ctidTraderAccountId == self.ctid_trader_account_id.
for_selected_account(m, ctid) == m.acct = ctid

\* Lines 223-230 with the assignment of self.currency left out.
trader_update_without_currency(snap, m, ctid) ==
  IF m.acct = ctid
  THEN [snap EXCEPT !.balance = m.balance \div 100,
                    !.equity = m.equity \div 100,
                    !.account_id = m.acct]
  ELSE snap

\* The snapshot after _handle_trader_response / _handle_trader_updated_event.
trader_update(snap, m, ctid) ==
  IF for_selected_account(m, ctid)
  THEN [snap EXCEPT !.balance = m.balance \div 100,
                    !.equity = m.equity \div 100,
                    !.currency = asset_map(m.asset),
                    !.account_id = m.acct]
  ELSE snap

\* ProtoOATraderRes answering a trader query.
handle_trader_response ==
  /\ race = RaceIdle
  /\ Delivering
  /\ \E r \in wire, m \in TraderMsgs :
       /\ r.kind = "GetTraderReq"
       /\ wire' = wire \ {r}
       /\ pending' = pending \ {r}
       /\ snapshot' = trader_update(snapshot, m, ctid_trader_account_id)
       /\ fresh' = (fresh \/ m.acct = ctid_trader_account_id)
       /\ op' = [name |-> "_handle_trader_response", ready |-> FALSE,
                 msg |-> m, prev |-> snapshot.currency]
  /\ ret' = RetNone
  /\ idleTicks' = 0
  /\ HandlerFrame
  /\ UNCHANGED hsElapsed
  /\ UNCHANGED <<default_ctid, is_connected, is_client_connected, last_error,
                 ctid_trader_account_id, spotLog, appAuthOk, acctAuthOk>>

\* ProtoOATraderUpdatedEvent pushed by the server, which pushes account
\* events only for an account authorized in this transport session.
handle_trader_updated_event ==
  /\ race = RaceIdle
  /\ Delivering
  /\ acctAuthOk
  /\ \E m \in TraderMsgs :
       /\ snapshot' = trader_update(snapshot, m, ctid_trader_account_id)
       /\ fresh' = (fresh \/ m.acct = ctid_trader_account_id)
       /\ op' = [name |-> "_handle_trader_updated_event", ready |-> FALSE,
                 msg |-> m, prev |-> snapshot.currency]
  /\ ret' = RetNone
  /\ idleTicks' = 0
  /\ HandlerFrame
  /\ UNCHANGED hsElapsed
  /\ UNCHANGED <<default_ctid, is_connected, is_client_connected, last_error,
                 ctid_trader_account_id, wire, pending, spotLog, appAuthOk,
                 acctAuthOk>>

\* The price list after _handle_spot_event (its body is `pass`).
spot_update(hist, p) == hist

\* ProtoOASpotEvent pushed by the server.
handle_spot_event ==
  /\ race = RaceIdle
  /\ Delivering
  /\ \E p \in Prices :
       /\ spotLog' = LastN(Append(spotLog, p), HistorySize)
       /\ price_history' = spot_update(price_history, p)
  /\ op' = Op("_handle_spot_event", FALSE)
  /\ ret' = RetNone
  /\ idleTicks' = 0
  /\ UNCHANGED <<configVars, ids, scalp, race, fresh, default_ctid, reactor_running, is_connected,
                 is_client_connected, last_error, ctid_trader_account_id,
                 snapshot, reactor_thread, svc_running, transport, wire,
                 pending, startCount, appAuthOk, acctAuthOk, hsElapsed,
                 sinceDisc>>

\* ProtoOAErrorRes, answering a request of this session or unsolicited.
handle_error_res ==
  /\ race = RaceIdle
  /\ Delivering
  /\ \E w \in {wire} \cup {wire \ {r} : r \in wire} : wire' = w
  /\ last_error' = ErrApi
  /\ op' = Op("_on_message_received:ProtoOAErrorRes", FALSE)
  /\ ret' = RetNone
  /\ idleTicks' = 0
  /\ HandlerFrame
  /\ UNCHANGED hsElapsed
  /\ UNCHANGED <<default_ctid, is_connected, is_client_connected,
                 ctid_trader_account_id, snapshot, pending, spotLog,
                 appAuthOk, acctAuthOk, fresh>>

\* Trader._handle_send_error: the errback of a pending Deferred (the send
\* failed or the library gave up waiting for the reply).
handle_send_error ==
  /\ race = RaceIdle
  /\ USE_OPENAPI_LIB /\ reactor_running
  /\ \E r \in pending :
       /\ pending' = pending \ {r}
       /\ op' = [name |-> "_handle_send_error", ready |-> FALSE,
                 req |-> r.kind]
  /\ last_error' = ErrSend
  /\ is_connected' = FALSE
  /\ ret' = RetNone
  /\ UNCHANGED idleTicks
  /\ HandlerFrame
  /\ UNCHANGED hsElapsed
  /\ UNCHANGED <<default_ctid, is_client_connected, ctid_trader_account_id,
                 snapshot, wire, spotLog, appAuthOk, acctAuthOk, fresh>>

\* Passage of time while the app-auth reply of this transport session is
\* awaited.
Tick ==
  /\ race = RaceIdle
  /\ transport = "up" /\ is_client_connected /\ ~appAuthOk
  /\ hsElapsed < MaxTicks
  /\ hsElapsed' = hsElapsed + 1
  /\ op' = Op("tick", FALSE)
  /\ ret' = RetNone
  /\ UNCHANGED <<configVars, ids, scalp, idleTicks, race, fresh, default_ctid, reactor_running, is_connected,
                 is_client_connected, last_error, ctid_trader_account_id,
                 snapshot, price_history, reactor_thread, svc_running,
                 transport, wire, pending, startCount, spotLog, appAuthOk,
                 acctAuthOk, sinceDisc>>


(* ------------- disconnect() overlapping a reactor callback ------------- *)
\* The actions above run a call from its first statement to its last.  When
\* the reactor runs in the thread the Trader started, disconnect() runs on
\* the caller's thread while callbacks run on the reactor thread, with no
\* lock between them; when join(timeout=5) gives up, the statements of
\* disconnect() after it interleave with those of a callback.  The actions
\* below are the statements of the two calls.

\* The Trader attributes the two calls write, and the requests.
RaceFrame ==
  UNCHANGED <<configVars, ids, scalp, idleTicks, default_ctid,
              ctid_trader_account_id, snapshot,
              price_history, reactor_running, spotLog, ret, appAuthOk,
              fresh>>

\* The race record once a call has taken its last step.
RaceAfter(rc) ==
  IF rc.pcD = "idle" /\ rc.pcH = "idle" THEN RaceIdle ELSE rc

\* disconnect(), lines 386-407: stopService, the reactor thread does not end
\* within the join, the reference to it is cleared.
disconnect_stop ==
  /\ USE_OPENAPI_LIB /\ reactor_installed /\ reactor_running
  /\ reactor_thread = "alive"
  /\ race.pcD = "idle"
  /\ race.pcH = "idle" => race = RaceIdle
  /\ svc_running' = FALSE
  /\ transport' = stopService(transport)
  /\ reactor_thread' = "leaked"
  /\ race' = IF race.pcH = "idle"
             THEN [RaceIdle EXCEPT !.pcD = "409", !.base = <<CurSess>>]
             ELSE [race EXCEPT !.pcD = "409", !.both = TRUE]
  /\ op' = Op("disconnect:386-407", is_connected)
  /\ UNCHANGED <<is_connected, is_client_connected, last_error, wire,
                 pending, startCount, sinceDisc, hsElapsed, acctAuthOk>>
  /\ RaceFrame

\* disconnect(), line 409: self.is_connected = False.
disconnect_clear_connected ==
  /\ race.pcD = "409"
  /\ is_connected' = FALSE
  /\ race' = [race EXCEPT !.pcD = "410"]
  /\ op' = Op("disconnect:409", is_connected)
  /\ UNCHANGED <<is_client_connected, last_error, wire, pending, svc_running,
                 transport, reactor_thread, startCount, sinceDisc, hsElapsed,
                 acctAuthOk>>
  /\ RaceFrame

\* disconnect(), line 410: self._is_client_connected = False, and return.
disconnect_clear_client ==
  /\ race.pcD = "410"
  /\ is_client_connected' = FALSE
  /\ race' = RaceAfter([race EXCEPT !.pcD = "idle"])
  /\ op' = Op("disconnect", is_connected)
  /\ startCount' = 0
  /\ sinceDisc' = TRUE
  /\ hsElapsed' = 0
  /\ UNCHANGED <<is_connected, last_error, wire, pending, svc_running,
                 transport, reactor_thread, acctAuthOk>>
  /\ RaceFrame

\* _handle_account_auth_response, lines 181-183 and 189: the reply is
\* compared with the selected account; is_connected = True on a match.
account_auth_compare ==
  /\ Delivering
  /\ reactor_thread \in {"alive", "leaked"}
  /\ race.pcH = "idle"
  /\ race.pcD = "idle" => race = RaceIdle
  /\ \E r \in wire, respAcct \in Accounts :
       /\ r.kind = "AccountAuthReq"
       /\ wire' = wire \ {r}
       /\ pending' = pending \ {r}
       /\ race' = IF race.pcD = "idle"
                  THEN [RaceIdle EXCEPT !.pcH = "184", !.base = <<CurSess>>,
                                        !.req = <<r>>, !.resp = respAcct]
                  ELSE [race EXCEPT !.pcH = "184", !.both = TRUE,
                                    !.req = <<r>>, !.resp = respAcct]
       /\ IF respAcct = ctid_trader_account_id
          THEN is_connected' = TRUE /\ UNCHANGED last_error
          ELSE last_error' = ErrAcctAuth /\ UNCHANGED is_connected
  /\ op' = Op("_handle_account_auth_response:181", FALSE)
  /\ UNCHANGED <<is_client_connected, svc_running, transport, reactor_thread,
                 startCount, sinceDisc, hsElapsed, acctAuthOk>>
  /\ RaceFrame

\* _handle_account_auth_response, line 184 (match): _last_error = "";
\* line 191 (no match): is_connected = False, and return.
account_auth_second_write ==
  /\ race.pcH = "184"
  /\ IF race.resp = ctid_trader_account_id
     THEN /\ last_error' = ErrNone
          /\ race' = [race EXCEPT !.pcH = "186"]
          /\ UNCHANGED is_connected
     ELSE /\ is_connected' = FALSE
          /\ race' = RaceAfter([race EXCEPT !.pcH = "idle"])
          /\ UNCHANGED last_error
  /\ op' = Op(IF race.resp = ctid_trader_account_id
              THEN "_handle_account_auth_response:184"
              ELSE "_handle_account_auth_response", FALSE)
  /\ UNCHANGED <<is_client_connected, wire, pending, svc_running, transport,
                 reactor_thread, startCount, sinceDisc, hsElapsed,
                 acctAuthOk>>
  /\ RaceFrame

\* _handle_account_auth_response, line 186: _send_get_trader_request is
\* called and tests _is_client_connected (line 301); with the flag clear it
\* records the error and the handler returns (lines 302-304).
account_auth_query ==
  /\ race.pcH = "186"
  /\ IF ~is_client_connected \/ ~HasClient
     THEN /\ last_error' = ErrNoTraderReq
          /\ race' = RaceAfter([race EXCEPT !.pcH = "idle"])
          /\ acctAuthOk' = TRUE
          /\ op' = Op("_handle_account_auth_response", FALSE)
     ELSE /\ race' = [race EXCEPT !.pcH = "306"]
          /\ op' = Op("_send_get_trader_request:301", FALSE)
          /\ UNCHANGED <<last_error, acctAuthOk>>
  /\ UNCHANGED <<is_connected, is_client_connected, wire, pending,
                 svc_running, transport, reactor_thread, startCount,
                 sinceDisc, hsElapsed>>
  /\ RaceFrame

\* _send_get_trader_request, lines 306-310: the request is built and handed
\* to client.send, and the handler returns.
account_auth_query_send ==
  /\ race.pcH = "306"
  /\ Commit(client_send(CurSess, Req("GetTraderReq", ctid_trader_account_id)))
  /\ race' = RaceAfter([race EXCEPT !.pcH = "idle"])
  /\ acctAuthOk' = TRUE
  /\ op' = Op("_handle_account_auth_response", FALSE)
  /\ UNCHANGED <<svc_running, transport, reactor_thread, startCount,
                 sinceDisc, hsElapsed>>
  /\ RaceFrame

\* What a call of a request sender from outside a handler leaves alone.
SenderFrame ==
  UNCHANGED <<configVars, ids, scalp, idleTicks, race, fresh, default_ctid,
              reactor_running, ctid_trader_account_id, snapshot,
              price_history, reactor_thread, svc_running, transport,
              startCount, spotLog, appAuthOk, acctAuthOk, hsElapsed,
              sinceDisc>>

\* A call of _send_ping_request (the target of the LoopingCall).
call_send_ping_request ==
  /\ race = RaceIdle
  /\ op' = Op("_send_ping_request", is_connected)
  /\ ret' = RetNone
  /\ Commit(send_ping_request(CurSess))
  /\ SenderFrame

\* A call of subscribe_to_symbol_prices.
call_subscribe_to_symbol_prices ==
  /\ race = RaceIdle
  /\ \E acct \in Accounts :
       Commit(subscribe_to_symbol_prices(CurSess, acct))
  /\ op' = Op("subscribe_to_symbol_prices", is_connected)
  /\ ret' = RetNone
  /\ SenderFrame

\* ProtoPingRes (lines 150-151, print only) or ProtoOASubscribeSpotsRes
\* (no branch): the Deferred of the request fires, nothing else happens.
handle_unhandled_response ==
  /\ race = RaceIdle
  /\ Delivering
  /\ \E r \in wire :
       /\ r.kind \in {"PingReq", "SubscribeSpotsReq"}
       /\ wire' = wire \ {r}
       /\ pending' = pending \ {r}
  /\ op' = Op("_on_message_received:other", FALSE)
  /\ ret' = RetNone
  /\ idleTicks' = 0
  /\ HandlerFrame
  /\ UNCHANGED hsElapsed
  /\ UNCHANGED <<default_ctid, is_connected, is_client_connected, last_error,
                 ctid_trader_account_id, snapshot, spotLog, appAuthOk,
                 acctAuthOk, fresh>>

\* A heartbeat interval passes in which a Ready session receives nothing.
\* The Trader keeps no clock and no record of inbound activity: the only
\* reaction to a ProtoHeartbeatEvent is a print (lines 146-149).
IdleTick ==
  /\ race = RaceIdle
  /\ USE_OPENAPI_LIB /\ is_connected /\ transport = "up"
  /\ idleTicks < MaxIdle
  /\ idleTicks' = idleTicks + 1
  /\ op' = Op("idle_tick", is_connected)
  /\ ret' = RetNone
  /\ UNCHANGED <<configVars, ids, scalp, race, fresh, default_ctid, reactor_running,
                 is_connected, is_client_connected, last_error,
                 ctid_trader_account_id, snapshot, price_history,
                 reactor_thread, svc_running, transport, wire, pending,
                 startCount, spotLog, appAuthOk, acctAuthOk, hsElapsed,
                 sinceDisc>>

\* The Trader and the message ids, which the scalping controls leave alone:
\* the calls made in the loop body (get_market_price, the placeholder
\* place_market_order) write no attribute of the Trader.
ScalpFrame ==
  UNCHANGED <<configVars, ids, default_ctid, reactor_running, is_connected,
              is_client_connected, last_error, ctid_trader_account_id,
              snapshot, price_history, reactor_thread, svc_running,
              transport, wire, pending, op, ret, startCount, spotLog,
              appAuthOk, acctAuthOk, hsElapsed, sinceDisc, fresh, idleTicks,
              race>>

\* TradingPage.start_scalping (gui.py 279-297): returns if is_scalping,
\* otherwise sets it and starts a new thread running _scalp_loop.
start_scalping ==
  /\ ~scalp.is_scalping
  /\ Len(scalp.loops) < MaxScalpThreads
  /\ scalp' = [is_scalping |-> TRUE,
               loops |-> Append(scalp.loops, "test"),
               seen |-> Append(scalp.seen, 0)]
  /\ ScalpFrame

\* TradingPage.stop_scalping (gui.py 299-301): clears is_scalping; the loop
\* thread is neither joined nor told apart from a later one.
stop_scalping ==
  /\ scalp.is_scalping
  /\ scalp' = [scalp EXCEPT !.is_scalping = FALSE]
  /\ ScalpFrame

\* _scalp_loop, gui.py line 310: `while self.is_scalping`.
scalp_loop_test(t) ==
  /\ t \in 1..Len(scalp.loops)
  /\ scalp.loops[t] = "test"
  /\ scalp' = IF scalp.is_scalping
              THEN [scalp EXCEPT !.loops[t] = "body",
                                 !.seen[t] = Len(scalp.loops)]
              ELSE [scalp EXCEPT !.loops[t] = "done"]
  /\ ScalpFrame

\* _scalp_loop, gui.py lines 311-320: one pass of the body, ending with
\* time.sleep(1).
scalp_loop_body(t) ==
  /\ t \in 1..Len(scalp.loops)
  /\ scalp.loops[t] = "body"
  /\ scalp' = [scalp EXCEPT !.loops[t] = "test"]
  /\ ScalpFrame

\* Everything but the message id counter.
IdsFrame ==
  UNCHANGED <<configVars, scalp, default_ctid, reactor_running, is_connected,
              is_client_connected, last_error, ctid_trader_account_id,
              snapshot, price_history, reactor_thread, svc_running,
              transport, wire, pending, op, ret, startCount, spotLog,
              appAuthOk, acctAuthOk, hsElapsed, sinceDisc, fresh, idleTicks,
              race>>

\* Calls of _next_message_id begun so far.
IdsBegun ==
  Len(ids.issued) + Cardinality({t \in Threads : ids.calls[t].pc # "idle"})

\* Line 83: msg_id = str(self._message_id_counter).  The method takes no
\* lock, so another thread may run between any two of its steps.
next_message_id_read(t) ==
  /\ ids.calls[t].pc = "idle"
  /\ IdsBegun < MaxIds
  /\ ids' = [ids EXCEPT !.calls[t] =
               [pc |-> "load", msg |-> msg_id(ids.counter), tmp |-> 0]]
  /\ IdsFrame

\* Line 84, first half: `self._message_id_counter += 1` loads the counter
next_message_id_load(t) ==
  /\ ids.calls[t].pc = "load"
  /\ ids' = [ids EXCEPT !.calls[t].pc = "store",
                        !.calls[t].tmp = ids.counter]
  /\ IdsFrame

\* Line 84, second half: and stores the loaded value plus one.
next_message_id_store(t) ==
  /\ ids.calls[t].pc = "store"
  /\ ids' = [ids EXCEPT !.calls[t].pc = "return",
                        !.counter = ids.calls[t].tmp + 1]
  /\ IdsFrame

\* Line 85: return msg_id.
next_message_id_return(t) ==
  /\ ids.calls[t].pc = "return"
  /\ ids' = [ids EXCEPT !.calls[t] = NoCall,
                        !.issued = Append(ids.issued, ids.calls[t].msg)]
  /\ IdsFrame

(* --------------------------- specification ----------------------------- *)
Next ==
  \/ connect
  \/ disconnect
  \/ get_market_price
  \/ get_price_history
  \/ get_account_summary
  \/ place_market_order
  \/ start_heartbeat
  \/ on_client_connected
  \/ on_client_disconnected
  \/ handle_app_auth_response
  \/ handle_account_auth_response
  \/ handle_get_account_list_response
  \/ handle_trader_response
  \/ handle_trader_updated_event
  \/ handle_spot_event
  \/ handle_error_res
  \/ handle_send_error
  \/ Tick

Spec == Init /\ [][Next]_vars

\* The session without the operations that only read it and without price
\* events: those change nothing but op, ret and spotLog, which no action
\* below reads.
NextSession ==
  \/ connect
  \/ disconnect
  \/ place_market_order
  \/ on_client_connected
  \/ on_client_disconnected
  \/ handle_app_auth_response
  \/ handle_account_auth_response
  \/ handle_get_account_list_response
  \/ handle_trader_response
  \/ handle_trader_updated_event
  \/ handle_error_res
  \/ handle_send_error
  \/ Tick

SpecSession == Init /\ [][NextSession]_vars

\* The handshake with the two request senders no handler calls.
NextSenders ==
  \/ connect
  \/ disconnect
  \/ on_client_connected
  \/ on_client_disconnected
  \/ handle_app_auth_response
  \/ handle_account_auth_response
  \/ handle_get_account_list_response
  \/ handle_send_error
  \/ call_send_ping_request
  \/ call_subscribe_to_symbol_prices
  \/ handle_unhandled_response

SpecSenders == Init /\ [][NextSenders]_vars

\* The session with the clock of silent heartbeat intervals.
NextHeartbeat ==
  \/ NextSession
  \/ IdleTick

SpecHeartbeat == Init /\ [][NextHeartbeat]_vars

\* _next_message_id called from several threads.
NextIds ==
  \E t \in Threads :
    \/ next_message_id_read(t)
    \/ next_message_id_load(t)
    \/ next_message_id_store(t)
    \/ next_message_id_return(t)

SpecIds == Init /\ [][NextIds]_vars

\* The scalping controls of the GUI and the loop threads they start.
NextScalping ==
  \/ start_scalping
  \/ stop_scalping
  \/ \E t \in 1..MaxScalpThreads :
       \/ scalp_loop_test(t)
       \/ scalp_loop_body(t)

SpecScalping == Init /\ [][NextScalping]_vars

\* The handshake with disconnect() and the account-auth callback taken
\* statement by statement.
NextRace ==
  \/ connect
  \/ disconnect
  \/ on_client_connected
  \/ on_client_disconnected
  \/ handle_app_auth_response
  \/ handle_account_auth_response
  \/ handle_get_account_list_response
  \/ handle_send_error
  \/ disconnect_stop
  \/ disconnect_clear_connected
  \/ disconnect_clear_client
  \/ account_auth_compare
  \/ account_auth_second_write
  \/ account_auth_query
  \/ account_auth_query_send

SpecRace == Init /\ [][NextRace]_vars

TypeOK ==
  /\ is_connected \in BOOLEAN
  /\ is_client_connected \in BOOLEAN
  /\ transport \in {"down", "connecting", "up", "closing"}
  /\ ctid_trader_account_id \in {0} \cup Accounts
  /\ startCount \in 0..MaxStarts
  /\ hsElapsed \in 0..MaxTicks
  /\ idleTicks \in 0..MaxIdle
  /\ ids.counter \in 1..(MaxIds + 1)
  /\ scalp.is_scalping \in BOOLEAN
  /\ Len(scalp.loops) <= MaxScalpThreads
  /\ Len(ids.issued) <= MaxIds
  /\ Len(spotLog) <= HistorySize


(* ------------------------------ claims --------------------------------- *)
\* C1: with the venue library present, the status reports connected only if,
\* within the current transport session, the transport is up, the app-auth
\* reply has been received and an account-auth reply for the selected
\* account has been received.
C1_ReadyOnlyWhenFullyAuthenticated ==
  (USE_OPENAPI_LIB /\ is_connected) =>
    (transport = "up" /\ appAuthOk /\ acctAuthOk)

\* C2: connect() called while is_connected is true returns True, leaves the
\* status as it is and starts nothing: no startService call, no change of
\* the client service or the transport, no new reactor thread.
C2_ConnectWhileReadyStartsNothing ==
  [][(op'.name = "connect" /\ is_connected) =>
       /\ ret' = RetBool(TRUE)
       /\ is_connected'
       /\ startCount' = startCount
       /\ svc_running' = svc_running
       /\ transport' = transport
       /\ reactor_thread' = reactor_thread
       /\ reactor_running' = reactor_running]_vars

\* C2 witness: connect() has returned from a call made in the Ready state of
\* a real session (library present, transport up, handshake complete).
C2_Witness ==
  /\ op = Op("connect", TRUE)
  /\ ret = RetBool(TRUE)
  /\ USE_OPENAPI_LIB /\ transport = "up" /\ is_connected /\ acctAuthOk
  /\ startCount = 1

\* C3: the transport service is started at most once between two
\* Disconnected states, also when connect() is called again before the
\* transport-up callback has fired.
C3_ServiceStartedAtMostOnce == startCount <= 1

\* C4: when more than the handshake timeout has passed since the transport
\* came up and no app-auth reply has arrived, the session is Disconnected
\* (not connected, transport torn down) with an error retained.
C4_HandshakeTimesOut ==
  (hsElapsed > HandshakeTimeout /\ ~appAuthOk) =>
    /\ ~is_connected
    /\ ~is_client_connected
    /\ transport # "up"
    /\ last_error # ErrNone

\* C5: after disconnect() has returned or the transport-drop callback has
\* run, the status stays not connected until the caller calls connect().
C5_StaysDisconnectedUntilConnect == sinceDisc => ~is_connected

\* C6: no request Deferred is still pending once disconnect() has returned.
C6_NothingPendingAfterDisconnect == (op.name = "disconnect") => pending = {}

\* C7: connect() against an endpoint that never becomes reachable reports
\* failure to the caller, with an error retained, and the status is not
\* connected.
C7_UnreachableConnectFails ==
  (op.name = "connect" /\ USE_OPENAPI_LIB /\ ~reachable) =>
    (ret = RetBool(FALSE) /\ last_error # ErrNone /\ ~is_connected)

\* C8: get_price_history() returns the last min(k, history_size) prices of
\* the k spot events dispatched so far, oldest first.
C8_HistoryIsLastEvents ==
  (op.name = "get_price_history") =>
    /\ Len(ret.list) <= HistorySize
    /\ ret.list = LastN(spotLog, HistorySize)

\* C9: with the venue library present and no spot event dispatched yet,
\* get_market_price does not return a number.
C9_NoPriceBeforeFirstEvent ==
  (op.name = "get_market_price" /\ USE_OPENAPI_LIB /\ spotLog = <<>>) =>
    ret.kind # "price"

\* C10: in a connected session, once a spot event has been dispatched,
\* get_market_price returns the price of the most recent one, and after
\* exactly one event the history is that one price.
C10_PriceIsLastEvent ==
  (op.name = "get_market_price" /\ USE_OPENAPI_LIB /\ op.ready
     /\ spotLog # <<>>) =>
    /\ ret = RetPrice(spotLog[Len(spotLog)])
    /\ (Len(spotLog) = 1 => price_history = spotLog)

\* What place_market_order may not touch: the session and the transport.
OrderLeavesSession ==
  UNCHANGED <<is_connected, is_client_connected, last_error,
              ctid_trader_account_id, snapshot, price_history, svc_running,
              transport, reactor_running, reactor_thread, wire, pending>>

C12_NonPositiveSizeRejected ==
  [][(op'.name = "place_market_order" /\ USE_OPENAPI_LIB /\ op'.size <= 0)
     => (ret' = RetError /\ wire' = wire /\ pending' = pending)]_vars

\* The elements of a sequence.
Range(seq) == {seq[i] : i \in 1..Len(seq)}

\* The account-auth requests on the wire.
AccountAuthReqs(w) == {r \in w : r.kind = "AccountAuthReq"}

\* C13: a non-empty account-list reply selects the configured account if it
\* is in the list and the first listed account otherwise, and an
\* account-auth request is then sent for exactly that account; with no
\* account id configured the app-auth reply triggers an account-list request
\* and no account-auth request is sent before the list reply.
C13_AccountSelection ==
  /\ [][(op'.name = "_handle_get_account_list_response" /\ op'.list # <<>>)
        => LET sel == IF ctid_trader_account_id \in Range(op'.list)
                      THEN ctid_trader_account_id
                      ELSE op'.list[1]
           IN /\ ctid_trader_account_id' = sel
              /\ Req("AccountAuthReq", sel) \in wire'
              /\ AccountAuthReqs(wire') \ AccountAuthReqs(wire)
                   \subseteq {Req("AccountAuthReq", sel)}]_vars
  /\ [][(op'.name = "_handle_app_auth_response"
         /\ ctid_trader_account_id = 0
         /\ Req("ApplicationAuthReq", 0) \in pending)
        => /\ Req("GetAccountListReq", 0) \in wire'
           /\ AccountAuthReqs(wire') = {}]_vars
  /\ [](ctid_trader_account_id = 0 => AccountAuthReqs(wire) = {})

\* The same for replies handled while _is_client_connected is still true,
\* together with the selection rule over every configured id and list.
C13_WhileClientConnected ==
  /\ [][(op'.name = "_handle_get_account_list_response" /\ op'.list # <<>>)
        => LET sel == IF ctid_trader_account_id \in Range(op'.list)
                      THEN ctid_trader_account_id
                      ELSE op'.list[1]
           IN /\ ctid_trader_account_id' = sel
              /\ is_client_connected => Req("AccountAuthReq", sel) \in wire'
              /\ AccountAuthReqs(wire') \ AccountAuthReqs(wire)
                   \subseteq {Req("AccountAuthReq", sel)}]_vars
  /\ [][(op'.name = "_handle_app_auth_response"
         /\ ctid_trader_account_id = 0
         /\ Req("ApplicationAuthReq", 0) \in pending)
        => /\ is_client_connected => Req("GetAccountListReq", 0) \in wire'
           /\ AccountAuthReqs(wire') = {}]_vars
  /\ [](ctid_trader_account_id = 0 => AccountAuthReqs(wire) = {})
  /\ [](\A c \in {0} \cup Accounts, l \in AccountLists \ {<<>>} :
          SelectAccount(c, l) = IF c \in Range(l) THEN c ELSE l[1])

\* A transport drop that disconnect() did not ask for.
TransportDropStep ==
  op'.name = "_on_client_disconnected" /\ transport = "up"

\* The transport-level and handshake-level failures: transport drop, send
\* failure, missing credentials, account-auth reply for another account,
\* empty account list.
SessionFaultStep ==
  \/ TransportDropStep
  \/ op'.name = "_handle_send_error"
  \/ op'.name = "_on_client_connected" /\ ~creds_ok
  \/ op'.name = "_handle_account_auth_response" /\ ~acctAuthOk'
  \/ op'.name = "_handle_get_account_list_response" /\ op'.list = <<>>

\* C14: every transport-level or handshake-level failure leaves the session
\* not connected and leaves a non-empty last error.
C14_FaultLeavesLastError ==
  [][SessionFaultStep => (~is_connected' /\ last_error' # ErrNone)]_vars

\* The same without the transport drop.
C14_FaultsOtherThanDrop ==
  [][(SessionFaultStep /\ ~TransportDropStep)
     => (~is_connected' /\ last_error' # ErrNone)]_vars

\* The last error is emptied only by the transport-up callback or by a
\* successful account authorization.
LastErrorClearedOnlyBySuccess ==
  [][(last_error # ErrNone /\ last_error' = ErrNone)
     => \/ op'.name = "_on_client_connected"
        \/ op'.name = "_handle_account_auth_response" /\ is_connected']_vars

\* C15: the last error is set back to empty only by a successful state
\* transition (transport up, account-auth success), by no other operation,
\* and each new fault overwrites the previous one.
C15_LastErrorClearedOnlyBySuccess ==
  /\ LastErrorClearedOnlyBySuccess
  /\ [][(TransportDropStep /\ last_error # ErrNone)
        => last_error' # last_error]_vars
  /\ [][op'.name = "_handle_send_error" => last_error' = ErrSend]_vars
  /\ [][op'.name = "_on_message_received:ProtoOAErrorRes"
        => last_error' = ErrApi]_vars

\* Requests that are not part of the handshake.
NonHandshakeRequests == {"GetTraderReq", "PingReq", "SubscribeSpotsReq"}

\* A venue error reply, or the failure of one non-handshake request.
RequestErrorStep ==
  \/ op'.name = "_on_message_received:ProtoOAErrorRes"
  \/ op'.name = "_handle_send_error" /\ op'.req \in NonHandshakeRequests

\* C16: a request-level error never changes the session state:
\* is_connected and _is_client_connected are the same before and after.
C16_RequestErrorKeepsSession ==
  [][RequestErrorStep
     => (is_connected' = is_connected
         /\ is_client_connected' = is_client_connected)]_vars

\* C18: when disconnect() returns the transport has been released, the
\* outstanding requests have been cancelled, and no reactor thread started
\* by the Trader (and no periodic ping task) is still running.
C18_DisconnectReleasesEverything ==
  (op.name = "disconnect" /\ USE_OPENAPI_LIB) =>
    /\ transport # "up" /\ ~svc_running
    /\ reactor_thread = "none"
    /\ pending = {}

\* The same with the two resources the code does release.
C18_TransportAndServiceReleased ==
  (op.name = "disconnect" /\ USE_OPENAPI_LIB) =>
    (transport # "up" /\ ~svc_running)

\* C19: once the session is disconnected (by disconnect() or by a transport
\* drop) the account snapshot fields are back at their initial empty values.
C19_SnapshotResetOnDisconnect ==
  (op.name \in {"disconnect", "_on_client_disconnected"}) =>
    snapshot = EmptySnapshot

\* The values get_account_summary reports as absent.
SummaryAbsent(d) ==
  /\ d.balance = NoValue /\ d.equity = NoValue
  /\ d.margin = NoValue /\ d.currency = "None"

\* C20: get_account_summary reports the snapshot as not available in every
\* state where no account event has been received since the session last
\* became Ready, including while it is not connected.
C20_NoSummaryBeforeAccountEvent ==
  (op.name = "get_account_summary" /\ USE_OPENAPI_LIB /\ ~fresh) =>
    SummaryAbsent(ret.list[1])

\* The same while the session is not connected.
C20_NoSummaryWhileNotConnected ==
  (op.name = "get_account_summary" /\ USE_OPENAPI_LIB /\ ~op.ready) =>
    SummaryAbsent(ret.list[1])

\* The flags after the writes of disconnect() (lines 409-410).
disconnect_flags(s) ==
  [s EXCEPT !.is_connected = FALSE, !.is_client_connected = FALSE]

\* The session after _handle_account_auth_response run as a whole.
account_auth_whole(s, r, respAcct, ctid) ==
  account_auth_response(
    [s EXCEPT !.wire = @ \ {r}, !.pending = @ \ {r}], respAcct, ctid)

\* The sessions the two serial orders of disconnect() and the callback lead
\* to from the session s.
SerialOutcomes(s, r, respAcct, ctid) ==
  {disconnect_flags(account_auth_whole(s, r, respAcct, ctid)),
   account_auth_whole(disconnect_flags(s), r, respAcct, ctid)}

\* C17: for every interleaving of a caller-thread disconnect() with a
\* reactor callback, the session at the end is the session of one of the
\* two serial orders of the calls.
C17_InterleavingsAreSerializable ==
  [][(race.both /\ race' = RaceIdle)
     => CurSess' \in SerialOutcomes(race.base[1], race.req[1], race.resp,
                                    ctid_trader_account_id)]_vars

\* The two handlers of account events.
AccountEventStep ==
  op'.name \in {"_handle_trader_response", "_handle_trader_updated_event"}

\* C21: each account event for the selected account replaces the stored
\* snapshot as a whole: account_id, balance, equity and currency all come
\* from the most recent accepted event (an event for another account and
\* every other operation leave them alone), and account_id is set only when
\* balance, equity and currency are set.
C21_SnapshotReplacedAsAWhole ==
  /\ [][AccountEventStep =>
          IF op'.msg.acct = ctid_trader_account_id
          THEN /\ snapshot'.account_id = op'.msg.acct
               /\ snapshot'.balance = op'.msg.balance \div 100
               /\ snapshot'.equity = op'.msg.equity \div 100
               /\ snapshot'.currency = asset_map(op'.msg.asset)
          ELSE snapshot' = snapshot]_vars
  /\ [][snapshot' # snapshot => AccountEventStep]_vars
  /\ [](snapshot.account_id # NoValue =>
          /\ snapshot.balance # NoValue
          /\ snapshot.equity # NoValue
          /\ snapshot.currency # "None")

\* A second event for the selected account has replaced the values of an
\* earlier one.
C21_Witness ==
  /\ op.name = "_handle_trader_updated_event"
  /\ op.msg.acct = ctid_trader_account_id
  /\ op.prev = "USD"
  /\ snapshot = [account_id |-> 1, balance |-> 5, equity |-> 4,
                 margin |-> NoValue, currency |-> "EUR"]

\* C23: when a Ready session has received nothing for more than the
\* configured number of heartbeat intervals, it has been forced to
\* Disconnected with a fault as last error.
C23_SilenceForcesDisconnect ==
  (USE_OPENAPI_LIB /\ idleTicks > HeartbeatMultiple) =>
    (~is_connected /\ last_error # ErrNone)

\* C24: after a transport drop or a failed attempt no connection attempt
\* starts on its own: a connection attempt begins, and the client service
\* is started, only in a step of connect().
C24_AttemptsOnlyInConnect ==
  [][((transport' = "connecting" /\ transport # "connecting")
      \/ (svc_running' /\ ~svc_running)
      \/ startCount' > startCount)
     => op'.name = "connect"]_vars

\* The client service is started only in a step of connect().
C24_ServiceStartedOnlyInConnect ==
  [][((svc_running' /\ ~svc_running) \/ startCount' > startCount)
     => op'.name = "connect"]_vars

\* The number an identifier was made from.
id_value(m) == CHOOSE n \in 1..(MaxIds + 1) : msg_id(n) = m

\* The identifiers returned by _next_message_id are strictly increasing in
\* the order the calls return.
C25_IdsStrictlyIncreasing ==
  \A i, j \in 1..Len(ids.issued) :
    i < j => id_value(ids.issued[i]) < id_value(ids.issued[j])

\* C25: the identifiers returned by _next_message_id are pairwise distinct,
\* whichever threads the calls come from, so that no two live requests
\* carry the same identifier.
C25_IdsDistinct ==
  \A i, j \in 1..Len(ids.issued) :
    i # j => ids.issued[i] # ids.issued[j]

\* C26: no session operation and no inbound event modifies the connection
\* configuration: the credentials and the default account id held in
\* settings stay as they were supplied.
C26_ConfigNeverModified ==
  [][creds_ok' = creds_ok /\ default_ctid' = default_ctid]_vars

\* The account-list handler is the only step that writes the settings.
C26_OnlyAccountListWritesSettings ==
  [][(creds_ok' # creds_ok \/ default_ctid' # default_ctid)
     => op'.name = "_handle_get_account_list_response"]_vars

AppAuthReqs(w) == {r \in w : r.kind = "ApplicationAuthReq"}

\* C27: within one transport session the handshake requests go out in
\* order: an application-auth request is sent only by the transport-up
\* callback, and an account-auth request is sent only once the
\* application-auth reply of that session has arrived.
C27_HandshakeInOrder ==
  /\ [][(AppAuthReqs(wire') \ AppAuthReqs(wire) # {})
        => (op'.name = "_on_client_connected" /\ transport' = "up")]_vars
  /\ [][(AccountAuthReqs(wire') \ AccountAuthReqs(wire) # {})
        => (appAuthOk' /\ transport' \in {"up", "closing"}
            /\ op'.name \in {"_handle_app_auth_response",
                             "_handle_get_account_list_response"})]_vars
  /\ [](wire # {} => transport \in {"up", "closing"})

\* A second transport session of the same service in which the account-auth
\* request has followed the application-auth reply.
C27_Witness ==
  /\ op.name = "_handle_app_auth_response"
  /\ sinceDisc
  /\ appAuthOk
  /\ transport = "up"
  /\ AccountAuthReqs(wire) # {}
  /\ AppAuthReqs(wire) = {}

\* C28: with the venue library present, whenever the session reports
\* connected the transport flag is set as well:
\* is_connected => _is_client_connected.
C28_ReadyImpliesClientConnected ==
  (USE_OPENAPI_LIB /\ is_connected) => is_client_connected

\* C29: when the transport comes up and the client id or secret is missing,
\* no application-auth request is sent, the client service is stopped, and
\* the session is not connected with the missing-credentials text as last
\* error.
C29_MissingCredentialsStopTheService ==
  /\ [][(op'.name = "_on_client_connected" /\ ~creds_ok)
        => /\ AppAuthReqs(wire') = {}
           /\ pending' = pending
           /\ ~svc_running'
           /\ transport' # "up"
           /\ ~is_connected'
           /\ last_error' = ErrCreds]_vars
  /\ []((USE_OPENAPI_LIB /\ ~creds_ok) => wire = {})

C29_Witness ==
  /\ op.name = "_on_client_connected"
  /\ ~creds_ok
  /\ last_error = ErrCreds
  /\ ~svc_running
  /\ ~is_connected
  /\ transport = "closing"

TraderReqs(w) == {r \in w : r.kind = "GetTraderReq"}

AccountAuthReplyStep == op'.name = "_handle_account_auth_response"

\* What C30 says of one account-auth reply.
AccountAuthReplyOutcome ==
  IF op'.resp = ctid_trader_account_id
  THEN /\ is_connected'
       /\ last_error' = ErrNone
       /\ TraderReqs(wire') \ TraderReqs(wire)
            = {Req("GetTraderReq", ctid_trader_account_id)}
  ELSE /\ ~is_connected'
       /\ last_error' # ErrNone
       /\ TraderReqs(wire') \subseteq TraderReqs(wire)

\* C30: an account-auth reply naming another account than the selected one
\* leaves the session not connected with a non-empty last error and sends
\* no trader query; a reply naming the selected account makes the session
\* connected, clears the last error and sends one trader query for it.
C30_AccountAuthReply ==
  [][AccountAuthReplyStep => AccountAuthReplyOutcome]_vars

\* The same for replies handled while _is_client_connected is set.
C30_WhileClientConnected ==
  [][(AccountAuthReplyStep /\ is_client_connected)
     => AccountAuthReplyOutcome]_vars

EmptyAccountListStep ==
  op'.name = "_handle_get_account_list_response" /\ op'.list = <<>>

\* C31: an empty account-list reply leaves the session not connected with
\* last error "No trading accounts found.", leaves the selected account id
\* unchanged and sends no account-auth request.
C31_EmptyAccountList ==
  [][EmptyAccountListStep
     => /\ ~is_connected'
        /\ last_error' = ErrNoAccounts
        /\ ctid_trader_account_id' = ctid_trader_account_id
        /\ default_ctid' = default_ctid
        /\ AccountAuthReqs(wire') = {}
        /\ wire' \subseteq wire
        /\ pending' \subseteq pending]_vars

C31_Witness ==
  /\ op.name = "_handle_get_account_list_response"
  /\ op.list = <<>>
  /\ last_error = ErrNoAccounts
  /\ ~is_connected
  /\ ctid_trader_account_id = 0
  /\ wire = {}

\* C32: no request is handed to the transport while _is_client_connected
\* is false: whenever a step puts a request on the wire the flag is set.
C32_NoSendWhileClientDisconnected ==
  [][(wire' \ wire # {}) => is_client_connected']_vars

\* A step that ran a request sender with _is_client_connected clear.
SenderRefusedStep(names) ==
  /\ op'.name \in names
  /\ USE_OPENAPI_LIB
  /\ ~is_client_connected

\* The same when each call runs as a whole, with what the senders do when
\* they refuse: the auth, list and trader-query senders record their error,
\* ping and subscribe leave the session as it was.
C32_SerialSenders ==
  /\ [][(wire' \ wire # {}) => is_client_connected']_vars
  /\ [][SenderRefusedStep({"_send_ping_request", "subscribe_to_symbol_prices"})
        => CurSess' = CurSess]_vars
  /\ [][(SenderRefusedStep({"_handle_account_auth_response"})
         /\ op'.resp = ctid_trader_account_id)
        => last_error' = ErrNoTraderReq]_vars
  /\ [][(SenderRefusedStep({"_handle_get_account_list_response"})
         /\ op'.list # <<>>)
        => last_error' = ErrNoAcctAuthReq]_vars
  /\ [][(SenderRefusedStep({"_handle_app_auth_response"})
         /\ wire \ wire' \subseteq pending /\ wire' # wire)
        => last_error' \in {ErrNoAcctAuthReq, ErrNoListReq}]_vars

\* C33: a trader reply or trader-updated event whose account id differs
\* from the selected account leaves account_id, balance, equity, margin and
\* currency unchanged.
C33_OtherAccountLeavesSnapshot ==
  [][(AccountEventStep /\ op'.msg.acct # ctid_trader_account_id)
     => /\ snapshot'.account_id = snapshot.account_id
        /\ snapshot'.balance = snapshot.balance
        /\ snapshot'.equity = snapshot.equity
        /\ snapshot'.margin = snapshot.margin
        /\ snapshot'.currency = snapshot.currency]_vars

\* An event for account 2 has been handled while account 1 is selected and
\* its snapshot is held.
C33_Witness ==
  /\ op.name \in {"_handle_trader_response", "_handle_trader_updated_event"}
  /\ op.msg.acct = MaxAccount
  /\ ctid_trader_account_id = 1
  /\ snapshot.account_id = 1
  /\ snapshot.balance = 1
  /\ snapshot.currency = "USD"

\* The loop threads that have been started and have not returned.
ActiveLoops == {t \in 1..Len(scalp.loops) : scalp.loops[t] # "done"}

\* C34: at most one scalping loop thread is active at any time, whatever
\* the sequence of start_scalping and stop_scalping calls.
C34_AtMostOneScalpLoop == Cardinality(ActiveLoops) <= 1

\* No two loop threads have found is_scalping true since the last start.
C34_NoTwoLoopsKeepRunning ==
  Cardinality({t \in 1..Len(scalp.loops) :
                 scalp.loops[t] = "body"
                 /\ scalp.seen[t] = Len(scalp.loops)}) <= 1
====
